---- MODULE Spec2Model ----
(***************************************************************************)
(* Lunara server: the external-data caching layer.                         *)
(*   - utils/cache.js      : process-wide TTL memory cache                 *)
(*   - services/tarot.js   : Tarot upstream client (jsonFetch) and service *)
(*   - services/moon.js    : Astronomy upstream client and getMoonFor      *)
(* Time is counted in ticks; every instant the code reads from Date.now()  *)
(* or NOW() is the value of the clock variable `now`.                      *)
(***************************************************************************)
EXTENDS Integers, Sequences, FiniteSets, TLC

\* ------------------------------------------------------------------ bounds
MaxTime == 3        \* the clock runs from 0 to MaxTime
MaxTtl  == 2        \* ttlMs arguments are drawn from 1..MaxTtl
MaxMoonCalls == 2   \* getMoonFor calls started in one run
MaxCardsCalls == 2  \* getCards calls started in one run
MaxAttemptCalls == 2  \* service calls started in one run of the attempts specification
MaxTarotCalls == 3  \* Tarot service calls started in one run

\* ------------------------------------------------------------------ values
Procs == {"p1", "p2"}            \* concurrent callers of the cache
Keys  == {"k1"}            \* cache keys
Null  == "null"                  \* JavaScript null
Vals  == {Null, "v1", "v2"}      \* what a producer may resolve to
TTLs  == 1..MaxTtl

\* Map.get(key) of a key the Map does not hold (undefined).
NoEntry == [val |-> "undefined", exp |-> -1]
\* What an operation returned: nothing, a value, or a rejection.
NoRet   == [kind |-> "none", val |-> "none"]
NoFill  == [val |-> "none", until |-> -1, startUntil |-> -1]
IdleCaller == [pc |-> "idle", key |-> "none", ttl |-> 0, startAt |-> 0, raced |-> FALSE,
               clean |-> TRUE, cleared |-> FALSE]

VARIABLES
  now,       \* Date.now()
  store,     \* cache.js `store`: key -> {val, exp} or NoEntry
  callers,   \* per caller: the cacheWrap call whose producer is in flight, if any, and
             \* (history) whether the cache was cleared since the call began
  fill,      \* history: per key, the last cacheSet: its value, the end of the TTL window
             \* counted from the set, and counted from the start of the filling call
  failed,    \* history: per key, the last producer failed and nothing was stored since that call began
  op         \* history: the operation that produced this state, and what it returned

cacheVars == <<now, store, callers, fill, failed, op>>

VARIABLES
  calls      \* per upstream call: client, position, the outcome of each network attempt
             \* (history), each attempt's request and timeout timer, and the result

fetchVars == <<calls>>

VARIABLES
  rows,      \* the moon_data table
  moon,      \* per caller: the getMoonFor call it is in
  mret,      \* what the getMoonFor call that ended last returned (or that it threw)
  started    \* history: getMoonFor calls started so far

moonVars == <<rows, moon, mret, started>>

VARIABLES
  config,    \* the process: the environment it was started in, whether it is up, and
             \* the constants config.js exports
  tver,      \* the version of services/tarot.js the process has loaded, if it has
  tarot,     \* per caller: the service call it is in, with (history) the upstream
             \* requests sent, the cache reads and writes made, the jsonFetch calls
             \* issued and the statuses of those that failed
  tret,      \* the service call that ended last
  tfill,     \* history: per key, the last value stored, and the first value stored
             \* since the key last held no live entry
  tstarted   \* history: service calls started so far

tarotVars == <<config, tver, tarot, tret, tfill, tstarted>>


\* --------------------------------------------------------- utils/cache.js
\* (variant: an entry expires at its expiry instant)
ExpiredOffByOne(hit, t) == t >= hit.exp
\* if (Date.now() > exp)
Expired(hit, t) == t > hit.exp

\* cacheGet: the value returned
CacheGetVal(s, k, t) ==
  IF k \notin DOMAIN s THEN Null
  ELSE IF s[k] = NoEntry THEN Null
  ELSE IF Expired(s[k], t) THEN Null
  ELSE s[k].val

\* (variant: no eviction on read)
CacheGetStoreKeep(s, k, t) == s
\* cacheGet: the store it leaves (an expired entry is deleted on read)
CacheGetStore(s, k, t) ==
  IF k \in DOMAIN s /\ s[k] # NoEntry /\ Expired(s[k], t) THEN [s EXCEPT ![k] = NoEntry] ELSE s

\* cacheSet: store.set(key, { val, exp: Date.now() + ttlMs })
CacheSet(s, k, v, ttl, t) == [s EXCEPT ![k] = [val |-> v, exp |-> t + ttl]]

\* (variant: cacheWrap serves whatever cacheGet returns)
WrapHitAlways(v) == TRUE
\* (variant: cacheWrap always calls the producer)
WrapHitNever(v) == FALSE
\* cacheWrap: if (v !== null) return Promise.resolve(v)
WrapHit(v) == v # Null

\* (variant: the callback returns what the cache held)
WrapResultStored(data, s, k, t) == CacheGetVal(s, k, t)
\* cacheWrap: what the .then callback returns for the producer's data
WrapResult(data, s, k, t) == data

\* cacheClear: store.clear()
CacheClearStore(s) == [k \in DOMAIN s |-> NoEntry]

Idle(p) == callers[p].pc = "idle"
Pending(p) == callers[p].pc = "pending"
Op(name, p, k, ret, raced, prod) ==
  [name |-> name, p |-> p, key |-> k, ret |-> ret, raced |-> raced, prod |-> prod]
Ok(v) == [kind |-> "ok", val |-> v]
Err == [kind |-> "err", val |-> "error"]

FillOf(k, v, ttl, startAt) ==
  [fill EXCEPT ![k] = [val |-> v, until |-> now + ttl, startUntil |-> startAt + ttl]]

\* History: a clear is seen by every call whose producer is in flight.
Cleared(cs) ==
  [q \in Procs |-> IF cs[q].pc = "pending" THEN [cs[q] EXCEPT !.cleared = TRUE] ELSE cs[q]]

\* History: a set under key k is seen by every call on k whose producer is in flight.
Dirtied(cs, k) ==
  [q \in Procs |-> IF cs[q].pc = "pending" /\ cs[q].key = k
                   THEN [cs[q] EXCEPT !.clean = FALSE] ELSE cs[q]]

\* cacheGet(key), called directly
cacheGet(p, k) ==
  /\ UNCHANGED <<fetchVars, moonVars, tarotVars>>
  /\ Idle(p)
  /\ store' = CacheGetStore(store, k, now)
  /\ op' = Op("get", p, k, Ok(CacheGetVal(store, k, now)), FALSE, "none")
  /\ UNCHANGED <<now, callers, fill, failed>>

\* cacheSet(key, val, ttlMs), called directly
cacheSet(p, k, v, ttl) ==
  /\ UNCHANGED <<fetchVars, moonVars, tarotVars>>
  /\ Idle(p)
  /\ store' = CacheSet(store, k, v, ttl, now)
  /\ fill' = FillOf(k, v, ttl, now)
  /\ failed' = [failed EXCEPT ![k] = FALSE]
  /\ callers' = Dirtied(callers, k)
  /\ op' = Op("set", p, k, NoRet, FALSE, "none")
  /\ UNCHANGED now

\* cacheWrap(key, ttlMs, fn) up to the point where fn() has been called:
\* a hit returns the cached value, a miss invokes the producer.
cacheWrapStart(p, k, ttl) ==
  /\ UNCHANGED <<fetchVars, moonVars, tarotVars>>
  /\ Idle(p)
  /\ LET v == CacheGetVal(store, k, now)
         race == \E q \in Procs \ {p} : Pending(q) /\ callers[q].key = k
     IN IF WrapHit(v)
        THEN /\ callers' = callers
             /\ op' = Op("hit", p, k, Ok(v), FALSE, "none")
        ELSE /\ callers' = [q \in Procs |->
                  IF q = p
                  THEN [pc |-> "pending", key |-> k, ttl |-> ttl, startAt |-> now,
                        raced |-> race, clean |-> TRUE, cleared |-> FALSE]
                  ELSE IF Pending(q) /\ callers[q].key = k
                       THEN [callers[q] EXCEPT !.raced = TRUE]
                       ELSE callers[q]]
             /\ op' = Op("miss", p, k, NoRet, FALSE, "none")
  /\ store' = CacheGetStore(store, k, now)
  /\ UNCHANGED <<now, fill, failed>>

\* fn() resolves with data: .then((data) => { cacheSet(key, data, ttlMs); return data; })
producerResolve(p, v) ==
  /\ UNCHANGED <<fetchVars, moonVars, tarotVars>>
  /\ Pending(p)
  /\ LET c == callers[p] IN
       /\ store' = CacheSet(store, c.key, v, c.ttl, now)
       /\ fill' = FillOf(c.key, v, c.ttl, c.startAt)
       /\ failed' = [failed EXCEPT ![c.key] = FALSE]
       /\ op' = Op("resolve", p, c.key, Ok(WrapResult(v, store, c.key, now)), c.raced, v)
       /\ callers' = [Dirtied(callers, c.key) EXCEPT ![p] = IdleCaller]
  /\ UNCHANGED now

\* (a variant that caches the failure)
producerRejectCached(p) ==
  /\ UNCHANGED <<fetchVars, moonVars, tarotVars>>
  /\ Pending(p)
  /\ LET c == callers[p] IN
       /\ store' = CacheSet(store, c.key, "error", c.ttl, now)
       /\ failed' = [failed EXCEPT ![c.key] = c.clean]
       /\ op' = Op("reject", p, c.key, Err, c.raced, "none")
  /\ callers' = [callers EXCEPT ![p] = IdleCaller]
  /\ UNCHANGED <<now, fill>>

\* fn() rejects: the promise cacheWrap returned rejects with the same error
producerReject(p) ==
  /\ UNCHANGED <<fetchVars, moonVars, tarotVars>>
  /\ Pending(p)
  /\ LET c == callers[p] IN
       /\ failed' = [failed EXCEPT ![c.key] = c.clean]
       /\ op' = Op("reject", p, c.key, Err, c.raced, "none")
  /\ callers' = [callers EXCEPT ![p] = IdleCaller]
  /\ UNCHANGED <<now, store, fill>>

\* cacheClear()
cacheClear ==
  /\ UNCHANGED <<fetchVars, moonVars, tarotVars>>
  /\ store' = CacheClearStore(store)
  /\ fill' = [k \in Keys |-> NoFill]
  /\ callers' = Cleared(callers)
  /\ op' = Op("clear", "none", "none", NoRet, FALSE, "none")
  /\ UNCHANGED <<now, failed>>

\* the clock advances
Tick ==
  /\ UNCHANGED <<fetchVars, moonVars, tarotVars>>
  /\ now < MaxTime
  /\ now' = now + 1
  /\ op' = Op("tick", "none", "none", NoRet, FALSE, "none")
  /\ UNCHANGED <<store, callers, fill, failed>>

\* ------------------------------------------------- upstream HTTP clients
\* "tarot"     : services/tarot.js, jsonFetch with an AbortController per attempt
\* "tarotRace" : services/tarot.js, jsonFetch racing fetch against withTimeout
\* "astro"     : services/moon.js, fetchMoonFromApi
Calls   == {"c1", "c2"}
Clients == {"tarot", "tarotRace", "astro"}
\* What the upstream may answer: a status and a body, either a JSON object with an
\* `error` member ("jsonError"), other JSON ("json") or plain text ("text").
Resp(status, body) == [status |-> status, body |-> body]
Responses == {Resp(200, "json"), Resp(404, "jsonError"), Resp(404, "text"), Resp(405, "text"),
              Resp(429, "text"), Resp(500, "jsonError"), Resp(502, "text"),
              Resp(503, "jsonError"), Resp(504, "text")}

NoResult == [kind |-> "none", status |-> 0, msg |-> <<"none", 0>>, data |-> "none"]
IdleCall == [client |-> "none", pc |-> "idle", hist |-> <<>>, req |-> <<>>, timer |-> <<>>,
             result |-> NoResult, http |-> 0]


\* resp.ok
RespOk(r) == r.status \in 200..299

\* (variant: no status is retried)
IsTransientNever(status) == FALSE
\* [429, 502, 503, 504].includes(e.status)
IsTransient(status) == status \in {429, 502, 503, 504}

Success(r) == [kind |-> "ok", status |-> r.status, msg |-> <<"none", 0>>, data |-> r.body]

\* (variant: every upstream failure becomes a 502)
TarotHttpErrorMasked(r) ==
  [kind |-> "err", status |-> 502, msg |-> <<"Tarot API error", r.status>>, data |-> "none"]
\* jsonFetch: the error thrown for a non-2xx response (err.status, err.data, message)
TarotHttpError(r) ==
  [kind |-> "err", status |-> r.status,
   msg |-> IF r.body = "jsonError" THEN <<"data.error", 0>> ELSE <<"Tarot API error", r.status>>,
   data |-> r.body]

\* fetchMoonFromApi: the error thrown for a non-2xx response
AstroHttpError(r) ==
  [kind |-> "err", status |-> 502, msg |-> <<"Moon API error", r.status>>, data |-> r.body]

\* (variant: every client reports a timeout as 504)
TimeoutErrorAll504(client) ==
  [kind |-> "err", status |-> 504, msg |-> <<"Upstream timeout", 0>>, data |-> "none"]
\* the error a timed-out attempt throws
TimeoutError(client) ==
  IF client = "astro"
  THEN [kind |-> "err", status |-> 502, msg |-> <<"Moon API network error", 0>>, data |-> "none"]
  ELSE [kind |-> "err", status |-> 504, msg |-> <<"Upstream timeout", 0>>, data |-> "none"]

\* (variant: every client reports a transport failure as 502)
NetworkErrorAll502(client) ==
  [kind |-> "err", status |-> 502, msg |-> <<"Moon API network error", 0>>, data |-> "none"]
\* the error a transport failure of fetch() throws
NetworkError(client) ==
  IF client = "astro"
  THEN [kind |-> "err", status |-> 502, msg |-> <<"Moon API network error", 0>>, data |-> "none"]
  ELSE [kind |-> "err", status |-> 0, msg |-> <<"fetch failed", 0>>, data |-> "none"]

\* (variant: a transient status is retried however many attempts were made)
RetriesAgain(client, n, e) == client # "astro" /\ IsTransient(e.status)
\* (variant: every client retries a transient status once)
RetriesEveryClient(client, n, e) == n = 1 /\ IsTransient(e.status)
\* whether the client makes a second attempt after a first attempt threw e
Retries(client, n, e) == client # "astro" /\ n = 1 /\ IsTransient(e.status)

\* what the timer's callback does to the request in flight
AbortsRequest(client) == client \in {"tarot", "astro"}
\* whether the attempt clears its timer once fetch has settled
ClearsTimer(client) == client \in {"tarot", "astro"}

Last(q) == q[Len(q)]
SetLast(q, v) == [q EXCEPT ![Len(q)] = v]
Attempt(c) == Len(calls[c].hist) + 1
Awaiting(c) == calls[c].pc = "fetch"

\* routes/tarot.js GET /cards/:id: the HTTP status sent for the service's outcome
\* (errorHandler: err.status || 500)
CardRouteStatus(res) ==
  IF res.kind = "ok" THEN 200
  ELSE IF res.status = 400 THEN 400
  ELSE IF res.status = 404 THEN 404
  ELSE IF res.status = 0 THEN 500 ELSE res.status

\* the call is over: GET /tarot/cards/:id answers with the outcome of a Tarot call
Done(cl, res) ==
  [pc |-> "done", result |-> res,
   http |-> IF cl.client = "astro" THEN 0 ELSE CardRouteStatus(res)]

\* the call's position after an attempt threw e
Thrown(cl, e) ==
  IF Retries(cl.client, Len(cl.hist) + 1, e)
  THEN [pc |-> "backoff", result |-> NoResult, http |-> 0]
  ELSE Done(cl, e)

\* one attempt: the request is sent and the timeout timer armed
StartAttempt(cl) ==
  [cl EXCEPT !.pc = "fetch", !.req = Append(@, "inflight"), !.timer = Append(@, "armed")]

\* a service calls the client
fetchStart(c, client) ==
  /\ UNCHANGED <<cacheVars, moonVars, tarotVars>>
  /\ calls[c].pc = "idle"
  /\ calls' = [calls EXCEPT ![c] = StartAttempt([IdleCall EXCEPT !.client = client])]

\* the upstream answers the attempt in flight
fetchRespond(c, r) ==
  /\ UNCHANGED <<cacheVars, moonVars, tarotVars>>
  /\ Awaiting(c)
  /\ LET cl == calls[c]
         err == IF cl.client = "astro" THEN AstroHttpError(r) ELSE TarotHttpError(r)
         after == IF RespOk(r) THEN Done(cl, Success(r)) ELSE Thrown(cl, err)
     IN calls' = [calls EXCEPT ![c] =
          [cl EXCEPT !.hist = Append(@, [kind |-> "resp", status |-> r.status, body |-> r.body]),
                     !.req = SetLast(@, "done"),
                     !.timer = IF ClearsTimer(cl.client) THEN SetLast(@, "cleared") ELSE @,
                     !.pc = after.pc, !.result = after.result, !.http = after.http]]

\* fetch() rejects with a transport failure (DNS, connection refused, TLS)
fetchNetworkError(c) ==
  /\ UNCHANGED <<cacheVars, moonVars, tarotVars>>
  /\ Awaiting(c)
  /\ LET cl == calls[c]
         after == Thrown(cl, NetworkError(cl.client))
     IN calls' = [calls EXCEPT ![c] =
          [cl EXCEPT !.hist = Append(@, [kind |-> "neterr", status |-> 0, body |-> "none"]),
                     !.req = SetLast(@, "failed"),
                     !.timer = IF ClearsTimer(cl.client) THEN SetLast(@, "cleared") ELSE @,
                     !.pc = after.pc, !.result = after.result, !.http = after.http]]

\* the timeout timer of the attempt in flight fires
fetchTimeout(c) ==
  /\ UNCHANGED <<cacheVars, moonVars, tarotVars>>
  /\ Awaiting(c)
  /\ Last(calls[c].timer) = "armed"
  /\ LET cl == calls[c]
         after == Thrown(cl, TimeoutError(cl.client))
     IN calls' = [calls EXCEPT ![c] =
          [cl EXCEPT !.hist = Append(@, [kind |-> "timeout", status |-> 0, body |-> "none"]),
                     !.req = IF AbortsRequest(cl.client) THEN SetLast(@, "aborted") ELSE @,
                     !.timer = SetLast(@, "fired"),
                     !.pc = after.pc, !.result = after.result, !.http = after.http]]

\* await new Promise((r) => setTimeout(r, 300)); return attempt();
fetchBackoffDone(c) ==
  /\ UNCHANGED <<cacheVars, moonVars, tarotVars>>
  /\ calls[c].pc = "backoff"
  /\ calls' = [calls EXCEPT ![c] = StartAttempt(calls[c])]

\* a timer that outlived its attempt fires (its rejection is ignored)
lateTimerFire(c, i) ==
  /\ UNCHANGED <<cacheVars, moonVars, tarotVars>>
  /\ i \in 1..Len(calls[c].timer)
  /\ calls[c].timer[i] = "armed"
  /\ ~(Awaiting(c) /\ i = Len(calls[c].timer))
  /\ calls' = [calls EXCEPT ![c].timer[i] = "fired"]

\* a request that outlived its attempt is answered (the answer is ignored)
lateResponse(c, i) ==
  /\ UNCHANGED <<cacheVars, moonVars, tarotVars>>
  /\ i \in 1..Len(calls[c].req)
  /\ calls[c].req[i] = "inflight"
  /\ ~(Awaiting(c) /\ i = Len(calls[c].req))
  /\ calls' = [calls EXCEPT ![c].req[i] = "done"]

InitFetch == calls = [c \in Calls |-> IdleCall]

\* --------------------------------------------------- services/moon.js
\* Coordinates are counted in ten-thousandths of a degree; in the moon specification a
\* tick of the clock is 12 hours. Strings the code trims or matches are sequences of
\* characters.
MoonProcs == {"m1", "m2"}
Dates     == {"2025-08-23", "2025-08-24"}
Phases    == {"Full Moon", "New Moon"}
NoCoord   == -9999999                      \* undefined / null
NoText    == <<>>                          \* undefined, null or ""
\* what the caller passes: numeric lat/lon, a place name, the client's IP, or nothing usable
Locations == {[lat |-> 436150, lon |-> -1162020, place |-> NoText, ip |-> NoText],
              [lat |-> NoCoord, lon |-> NoCoord, place |-> <<"B", "o", "i", "s", "e">>, ip |-> NoText],
              [lat |-> NoCoord, lon |-> NoCoord, place |-> NoText, ip |-> <<"8", ".", "8", ".", "8", ".", "8">>],
              [lat |-> NoCoord, lon |-> NoCoord, place |-> <<" ", " ">>, ip |-> NoText],
              [lat |-> NoCoord, lon |-> NoCoord, place |-> NoText, ip |-> NoText]}
\* location.latitude / location.longitude of the upstream's answer, if any
Echoes    == {[lat |-> NoCoord, lon |-> NoCoord], [lat |-> 436190, lon |-> -1162040]}
\* the astronomy data of a 2xx answer: phase, sign, the location's label, moonrise
\* and moonset ("HH:MM")
MoonData  == {[phase |-> "Full Moon", zodiac |-> "Leo", city |-> "Boise",
               moonrise |-> <<"1", "8", ":", "4", "2">>, moonset |-> <<" ", "5", ":", "1", "0">>],
              [phase |-> "New Moon", zodiac |-> "Virgo", city |-> "Paris",
               moonrise |-> <<"6", ":", "0", "5">>, moonset |-> <<"-", ":", "-">>]}
NoData    == [phase |-> "none", zodiac |-> "none", city |-> "none", moonrise |-> NoText, moonset |-> NoText]
NoEcho    == [lat |-> NoCoord, lon |-> NoCoord]
\* The JSON body of a 2xx answer as it arrives: the keys fetchMoonFromApi probes, and
\* `phase`, `location.lat` and `location.lon`, which it does not read.
NoField == "undefined"                     \* a key the body does not have
\* the body the integration test's stub replies with
StubBody ==
  [phase |-> "Full Moon", moon_phase |-> NoField, moonPhase |-> NoField,
   moon_status |-> NoField, moonrise |-> <<"1", "7", ":", "2", "3">>,
   moonset |-> <<"0", "2", ":", "4", "1">>, moon_zodiac |-> NoField, moon_sign |-> NoField,
   astronomy |-> [moon_phase |-> NoField, moonrise |-> NoText, moonset |-> NoText],
   location |-> [lat |-> 436150, lon |-> -1162020, latitude |-> NoCoord,
                 longitude |-> NoCoord, city |-> "Boise"]]
\* the same data under the keys of the astronomy provider
ProviderBody ==
  [StubBody EXCEPT !.phase = NoField, !.moon_phase = "Full Moon",
                   !.location = [lat |-> NoCoord, lon |-> NoCoord, latitude |-> 436150,
                                 longitude |-> -1162020, city |-> "Boise"]]
WireBodies == {StubBody, ProviderBody}
RECURSIVE FirstTruthy(_)
\* a || b || ... || null
FirstTruthy(vs) ==
  IF vs = <<>> THEN Null
  ELSE IF Head(vs) \notin {NoField, ""} THEN Head(vs) ELSE FirstTruthy(Tail(vs))
\* fetchMoonFromApi: what it makes of the body of a 2xx answer
Parsed(body) ==
  [kind |-> "data", resp |-> Resp(200, "json"),
   data |-> [phase |-> FirstTruthy(<<body.moon_phase, body.moonPhase,
                                     body.astronomy.moon_phase, body.moon_status>>),
             zodiac |-> FirstTruthy(<<body.moon_zodiac, body.moon_sign>>),
             city |-> FirstTruthy(<<body.location.city>>),
             moonrise |-> IF body.moonrise # NoText THEN body.moonrise
                          ELSE body.astronomy.moonrise,
             moonset |-> IF body.moonset # NoText THEN body.moonset
                         ELSE body.astronomy.moonset],
   echo |-> [lat |-> body.location.latitude, lon |-> body.location.longitude]]

\* the outcome of the astronomy request: a 2xx answer, a non-2xx answer, a transport
\* failure or a timeout
MoonAnswers ==
  [kind : {"data"}, resp : {Resp(200, "json")}, data : MoonData, echo : Echoes]
    \cup [kind : {"http"}, resp : {Resp(404, "text"), Resp(503, "jsonError")},
          data : {NoData}, echo : {NoEcho}]
    \cup [kind : {"neterr", "timeout"}, resp : {Resp(0, "none")}, data : {NoData}, echo : {NoEcho}]

FRESH_WINDOW == 2                          \* INTERVAL '24 hours'

\* a TIMESTAMP column: NULL, or the date and "HH:MM:00"
NoStamp == [date |-> "none", time |-> NoText]
NoRow == [id |-> 0, date |-> "none", lat |-> 0, lon |-> 0, phase |-> "none",
          moonrise |-> NoStamp, moonset |-> NoStamp, created |-> -1]
\* the outcome of a getMoonFor call: the snapshot returned or the error thrown, and
\* (history) where the snapshot came from, how old the row the SELECT saw was, the
\* phase the upsert replaced, whether another call wrote the key between this call's
\* SELECT and its upsert, the upstream requests and queries the call made, whether a
\* location was supplied, and the upstream's answer to a request that failed
NoMoonResult == [kind |-> "none", err |-> NoResult, date |-> "none", lat |-> 0, lon |-> 0,
                 phase |-> "none", moonrise |-> NoStamp, moonset |-> NoStamp,
                 zodiac |-> "none", city |-> "none", from |-> "none", raced |-> FALSE,
                 age |-> -1, replaced |-> "none", reqs |-> 0, dbops |-> 0, usable |-> TRUE,
                 up |-> [kind |-> "none", resp |-> Resp(0, "none")]]
IdleMoon == [pc |-> "idle", date |-> "none", lat |-> 0, lon |-> 0, first |-> NoData,
             seen |-> NoRow, age |-> -1, reqs |-> 0, dbops |-> 0, usable |-> TRUE,
             asked |-> [lat |-> NoCoord, lon |-> NoCoord]]

RECURSIVE TrimLeft(_)
TrimLeft(s) == IF s # <<>> /\ Head(s) = " " THEN TrimLeft(Tail(s)) ELSE s
RECURSIVE TrimRight(_)
TrimRight(s) == IF s # <<>> /\ s[Len(s)] = " " THEN TrimRight(SubSeq(s, 1, Len(s) - 1)) ELSE s
\* String.prototype.trim
Trim(s) == TrimRight(TrimLeft(s))

Digits == {"0", "1", "2", "3", "4", "5", "6", "7", "8", "9"}
\* the number a run of decimal digits stands for
DigitValue(ch) ==
  CASE ch = "0" -> 0 [] ch = "1" -> 1 [] ch = "2" -> 2 [] ch = "3" -> 3 [] ch = "4" -> 4
    [] ch = "5" -> 5 [] ch = "6" -> 6 [] ch = "7" -> 7 [] ch = "8" -> 8 [] ch = "9" -> 9
RECURSIVE DecimalValue(_)
DecimalValue(ds) ==
  IF ds = <<>> THEN 0
  ELSE 10 * DecimalValue(SubSeq(ds, 1, Len(ds) - 1)) + DigitValue(ds[Len(ds)])

\* /^\d{1,2}:\d{2}$/.test(s)
IsHHMM(s) ==
  /\ Len(s) \in {4, 5}
  /\ s[Len(s) - 2] = ":"
  /\ \A i \in 1..Len(s) : i # Len(s) - 2 => s[i] \in Digits

\* combineDateTime: `${dateYmd} ${hhmm.trim()}:00`, or null
CombineDateTime(dateYmd, hhmm) ==
  IF hhmm = NoText THEN NoStamp
  ELSE IF ~IsHHMM(Trim(hhmm)) THEN NoStamp
  ELSE [date |-> dateYmd, time |-> Trim(hhmm) \o <<":", "0", "0">>]

\* (variant: the digits after the second decimal are cut off)
Round2Truncating(n) == IF n = NoCoord THEN 0 ELSE (n \div 100) * 100
\* round2: Math.round(Number(n) * 100) / 100, with Number(null) = 0
Round2(n) == IF n = NoCoord THEN 0 ELSE ((n + 50) \div 100) * 100

\* (variant: any arguments are sent to the upstream)
LocationFormAny(lat, lon, place, ip) ==
  IF lat # NoCoord /\ lon # NoCoord THEN "coords" ELSE "location"
\* fetchMoonFromApi: the query parameters chosen for the location, or none
LocationForm(lat, lon, place, ip) ==
  IF lat # NoCoord /\ lon # NoCoord THEN "coords"
  ELSE IF Trim(place) # NoText THEN "location"
  ELSE IF Trim(ip) # NoText THEN "ip"
  ELSE "none"

NoLocationError ==
  [kind |-> "err", status |-> 400, msg |-> <<"No location provided", 0>>, data |-> "none"]

\* ------------------------------------------------------------- config.js
\* the environment variables the process is started with (NoField: not set)
Envs == [DB_URL : {NoField, "postgres://db"}, MOON_API_KEY : {NoField, "key"},
         TAROT_API_BASE : {NoField, "http://tarot"}]
DeployedEnv ==
  [DB_URL |-> "postgres://db", MOON_API_KEY |-> "key", TAROT_API_BASE |-> "http://tarot"]
\* process.env.MOON_API_KEY || ""
MoonApiKey(env) == IF env.MOON_API_KEY = NoField THEN "" ELSE env.MOON_API_KEY
\* process.env.TAROT_API_BASE || "http://localhost:5001"
TarotApiBase(env) ==
  IF env.TAROT_API_BASE = NoField THEN "http://localhost:5001" ELSE env.TAROT_API_BASE
\* (variant: the process exits unless every variable is set)
ConfigUpAllRequired(env) == \A n \in DOMAIN env : env[n] # NoField
\* if (!DB_URL) process.exit(1): whether the process gets past config.js
ConfigUp(env) == env.DB_URL # NoField
Config(env) ==
  [env |-> env, boots |-> 1, up |-> ConfigUp(env), MOON_API_KEY |-> MoonApiKey(env),
   TAROT_API_BASE |-> TarotApiBase(env)]

\* the process is started in environment env, before it serves anything
serverStart(env) ==
  /\ config.boots = 0
  /\ started = 0 /\ tstarted = 0 /\ tver = "none"
  /\ config' = Config(env)
  /\ UNCHANGED <<cacheVars, fetchVars, moonVars, tver, tarot, tret, tfill, tstarted>>

\* fetchMoonFromApi: the error thrown when the key is empty
MissingKeyError ==
  [kind |-> "err", status |-> 500, msg |-> <<"Missing MOON_API_KEY", 0>>, data |-> "none"]

\* fetchMoonFromApi: the coordinates of the normalized result
\* (the response's coordinates, else the numeric inputs, else null)
OutCoord(echo, input) ==
  IF echo # NoCoord THEN echo ELSE IF input # NoCoord THEN input ELSE NoCoord

\* (variant: the upstream's status becomes the error's status)
MoonFetchErrorPassThrough(a) ==
  IF a.kind = "http" THEN [AstroHttpError(a.resp) EXCEPT !.status = a.resp.status]
  ELSE IF a.kind = "timeout" THEN TimeoutError("astro") ELSE NetworkError("astro")
\* fetchMoonFromApi: the error thrown for a failed request
MoonFetchError(a) ==
  IF a.kind = "http" THEN AstroHttpError(a.resp)
  ELSE IF a.kind = "timeout" THEN TimeoutError("astro") ELSE NetworkError("astro")

\* WHERE for_date = $1 AND lat = $2 AND lon = $3
Matching(rs, d, la, lo) == {r \in rs : r.date = d /\ r.lat = la /\ r.lon = lo}

\* (variant: no row is fresh)
FreshNever(r, t) == FALSE
\* (variant: a row aged exactly 24 hours is stale)
FreshStrict(r, t) == t - r.created < FRESH_WINDOW
\* (NOW() - created_at) <= INTERVAL '24 hours' AS fresh
Fresh(r, t) == t - r.created <= FRESH_WINDOW

NextRowId(rs) == IF rs = {} THEN 1 ELSE 1 + CHOOSE m \in {r.id : r \in rs} : \A r \in rs : r.id <= m

\* the row the INSERT proposes
NewRow(rs, d, la, lo, first, t) ==
  [id |-> NextRowId(rs), date |-> d, lat |-> la, lon |-> lo, phase |-> first.phase,
   moonrise |-> CombineDateTime(d, first.moonrise),
   moonset |-> CombineDateTime(d, first.moonset), created |-> t]

\* moonrise TIMESTAMPTZ, moonset TIMESTAMPTZ: the column takes NULL and the times of
\* day from 00:00 to 24:00, and refuses any other text
TakesTimestamp(stamp) ==
  \/ stamp = NoStamp
  \/ LET t  == stamp.time
         hh == DecimalValue(SubSeq(t, 1, Len(t) - 6))
         mm == DecimalValue(SubSeq(t, Len(t) - 4, Len(t) - 3))
     IN  (hh <= 23 /\ mm <= 59) \/ (hh = 24 /\ mm = 0)
\* the error of a query the database refuses
DateTimeRangeError ==
  [kind |-> "err", status |-> 0, msg |-> <<"date/time field value out of range", 0>>,
   data |-> "none"]

\* (variant: a plain INSERT on a table without the UNIQUE constraint)
UpsertInsertOnly(rs, d, la, lo, first, t) == rs \cup {NewRow(rs, d, la, lo, first, t)}
\* (variant: ON CONFLICT DO NOTHING)
UpsertKeepFirst(rs, d, la, lo, first, t) ==
  IF Matching(rs, d, la, lo) = {} THEN rs \cup {NewRow(rs, d, la, lo, first, t)} ELSE rs
\* INSERT INTO moon_data ... ON CONFLICT (for_date, lat, lon) DO UPDATE SET phase = ...,
\* moonrise = ..., moonset = ..., created_at = NOW()
Upsert(rs, d, la, lo, first, t) ==
  LET new == NewRow(rs, d, la, lo, first, t) IN
  IF Matching(rs, d, la, lo) = {}
  THEN rs \cup {new}
  ELSE {IF r \in Matching(rs, d, la, lo)
        THEN [r EXCEPT !.phase = new.phase, !.moonrise = new.moonrise,
                       !.moonset = new.moonset, !.created = t]
        ELSE r : r \in rs}

\* (variant: the snapshot of a hit is the upstream's answer)
SnapshotFromApi(m, first, d) ==
  [date |-> m.date, lat |-> m.lat, lon |-> m.lon, phase |-> first.phase,
   moonrise |-> CombineDateTime(d, first.moonrise),
   moonset |-> CombineDateTime(d, first.moonset), zodiac |-> first.zodiac,
   city |-> first.city]
\* getMoonFor: the object returned for row m and the upstream's normalized answer
Snapshot(m, first, d) ==
  [date |-> m.date, lat |-> m.lat, lon |-> m.lon, phase |-> m.phase,
   moonrise |-> m.moonrise, moonset |-> m.moonset, zodiac |-> first.zodiac,
   city |-> first.city]

\* the outcome of a call that returned snapshot s
Returned(s, c, from) ==
  [NoMoonResult EXCEPT !.kind = "ok", !.date = s.date, !.lat = s.lat, !.lon = s.lon,
                       !.phase = s.phase, !.moonrise = s.moonrise, !.moonset = s.moonset,
                       !.zodiac = s.zodiac, !.city = s.city, !.from = from, !.age = c.age,
                       !.reqs = c.reqs, !.dbops = c.dbops, !.usable = c.usable]
\* the outcome of a call that threw e
Failed(e, c) ==
  [NoMoonResult EXCEPT !.kind = "err", !.err = e, !.reqs = c.reqs, !.dbops = c.dbops,
                       !.usable = c.usable]

\* whether a location was supplied: a numeric pair, a non-blank place or a non-blank IP
Supplied(loc) ==
  \/ loc.lat # NoCoord /\ loc.lon # NoCoord
  \/ \E i \in 1..Len(loc.place) : loc.place[i] # " "
  \/ \E i \in 1..Len(loc.ip) : loc.ip[i] # " "

\* getMoonFor(date, lat, lon, locationStr, ip) up to the request to the upstream,
\* or to the error fetchMoonFromApi throws before it
moonStart(p, d, loc) ==
  /\ UNCHANGED <<cacheVars, fetchVars, tarotVars>>
  /\ config.up
  /\ moon[p].pc = "idle"
  /\ started < MaxMoonCalls
  /\ started' = started + 1
  /\ LET lat == IF loc.lat # NoCoord THEN Round2(loc.lat) ELSE NoCoord
         lon == IF loc.lon # NoCoord THEN Round2(loc.lon) ELSE NoCoord
         c == [IdleMoon EXCEPT !.date = d, !.lat = lat, !.lon = lon, !.usable = Supplied(loc),
                               !.asked = [lat |-> loc.lat, lon |-> loc.lon]]
     IN IF config.MOON_API_KEY = ""
        THEN /\ mret' = Failed(MissingKeyError, c)
             /\ moon' = moon
        ELSE IF LocationForm(lat, lon, loc.place, loc.ip) = "none"
        THEN /\ mret' = Failed(NoLocationError, c)
             /\ moon' = moon
        ELSE /\ moon' = [moon EXCEPT ![p] = [c EXCEPT !.pc = "fetching", !.reqs = 1]]
             /\ mret' = mret
  /\ UNCHANGED rows

\* fetchMoonFromApi returns or throws; on success the cache key is computed
moonFetched(p, a) ==
  /\ UNCHANGED <<cacheVars, fetchVars, tarotVars>>
  /\ moon[p].pc = "fetching"
  /\ LET c == moon[p] IN
     IF a.kind = "data"
     THEN /\ moon' = [moon EXCEPT ![p] =
               [c EXCEPT !.pc = "select", !.first = a.data,
                         !.lat = Round2(OutCoord(a.echo.lat, c.lat)),
                         !.lon = Round2(OutCoord(a.echo.lon, c.lon))]]
          /\ mret' = mret
     ELSE IF Retries("astro", c.reqs, MoonFetchError(a))
     THEN /\ moon' = [moon EXCEPT ![p].reqs = c.reqs + 1]
          /\ mret' = mret
     ELSE /\ moon' = [moon EXCEPT ![p] = IdleMoon]
          /\ mret' = [Failed(MoonFetchError(a), c)
                        EXCEPT !.up = [kind |-> a.kind, resp |-> a.resp]]
  /\ UNCHANGED <<rows, started>>

\* the SELECT returns; a fresh row is the answer
moonSelect(p) ==
  /\ UNCHANGED <<cacheVars, fetchVars, tarotVars>>
  /\ moon[p].pc = "select"
  /\ LET c == moon[p]
         found == Matching(rows, c.date, c.lat, c.lon)
     IN \E r \in (IF found = {} THEN {NoRow} ELSE found) :
          LET q == [c EXCEPT !.seen = r, !.dbops = c.dbops + 1,
                             !.age = IF r = NoRow THEN -1 ELSE now - r.created]
          IN IF r # NoRow /\ Fresh(r, now)
             THEN /\ moon' = [moon EXCEPT ![p] = IdleMoon]
                  /\ mret' = Returned(Snapshot(r, c.first, c.date), q, "row")
             ELSE /\ moon' = [moon EXCEPT ![p] = [q EXCEPT !.pc = "upsert"]]
                  /\ mret' = mret
  /\ UNCHANGED <<rows, started>>

\* the upsert returns the row written
moonUpsert(p) ==
  /\ UNCHANGED <<cacheVars, fetchVars, tarotVars>>
  /\ moon[p].pc = "upsert"
  /\ LET c == moon[p]
         before == Matching(rows, c.date, c.lat, c.lon)
         after == Upsert(rows, c.date, c.lat, c.lon, c.first, now)
         new == NewRow(rows, c.date, c.lat, c.lon, c.first, now)
     IN IF ~TakesTimestamp(new.moonrise) \/ ~TakesTimestamp(new.moonset)
        THEN /\ rows' = rows
             /\ moon' = [moon EXCEPT ![p] = IdleMoon]
             /\ mret' = Failed(DateTimeRangeError, [c EXCEPT !.dbops = c.dbops + 1])
        ELSE
        /\ rows' = after
        /\ moon' = [moon EXCEPT ![p] = IdleMoon]
        /\ \E m \in Matching(after, c.date, c.lat, c.lon) :
             /\ \A o \in Matching(after, c.date, c.lat, c.lon) : o.id <= m.id
             /\ mret' = [Returned(Snapshot(m, c.first, c.date), [c EXCEPT !.dbops = c.dbops + 1],
                                  "upsert")
                           EXCEPT !.raced = (before # {} /\ c.seen \notin before),
                                  !.replaced = IF before = {} THEN "none"
                                               ELSE (CHOOSE o \in before : TRUE).phase]
  /\ UNCHANGED started

\* The table outlives the process: it starts empty or holding a row written earlier.
SeedRow == [id |-> 1, date |-> "2025-08-23", lat |-> 436200, lon |-> -1162000,
            phase |-> "New Moon", moonrise |-> CombineDateTime("2025-08-23", <<"6", ":", "0", "5">>),
            moonset |-> NoStamp, created |-> 0]

InitMoon ==
  /\ rows \in {{}, {SeedRow}}
  /\ moon = [p \in MoonProcs |-> IdleMoon]
  /\ mret = NoMoonResult
  /\ started = 0

\* --------------------------------------------------- services/tarot.js
\* "wrap"  : the service of part_023 (getCardOfDay and getCardById go through cacheWrap)
\* "plain" : the service of services/tarot.js (no cache; drawYesNo falls back on 405)
\* In the tarot specifications a unit of the clock is 6 hours.
TarotProcs    == {"t1", "t2"}
TarotVersions == {"wrap", "plain"}
Undefined     == "undefined"
\* qs.toString(): the parameters that are neither null/undefined nor empty
HasParam(v) == v # Undefined /\ v # ""
Seeds         == {Undefined, "", "s1"}     \* the `seed` argument
DateArgs      == {Undefined, ""}           \* the `date` argument
Questions     == {Undefined, "", "will it rain"}
\* the id argument as Number(id) sees it: not a number, or a number in tenths
IdArgs        == {[nan |-> TRUE, tenths |-> 0], [nan |-> FALSE, tenths |-> -10],
                  [nan |-> FALSE, tenths |-> 0], [nan |-> FALSE, tenths |-> 10],
                  [nan |-> FALSE, tenths |-> 15]}
NoId          == [nan |-> TRUE, tenths |-> -1]

\* the query parameters of GET /cards as Number.parseInt reads them: texts, and
\* the text of `undefined` for a parameter that is missing
UndefinedText == <<"u", "n", "d", "e", "f", "i", "n", "e", "d">>
CardsParams   ==
  {[arcana |-> Undefined, limit |-> UndefinedText, offset |-> UndefinedText],
   [arcana |-> Undefined, limit |-> <<"a", "b", "c">>, offset |-> <<"-", "1">>],
   [arcana |-> Undefined, limit |-> <<"2", "5", "0">>,
    offset |-> <<"1", "0", "0", "0", "1">>],
   [arcana |-> "major", limit |-> <<"0">>, offset |-> UndefinedText],
   [arcana |-> Undefined, limit |-> <<" ", "1", "2", "a">>, offset |-> <<"2", "5">>]}
SingleCaller  == {"t1"}
NoRaw         == [arcana |-> "none", limit |-> <<>>, offset |-> <<>>]

RECURSIVE DigitPrefix(_)
\* the longest run of decimal digits a text starts with
DigitPrefix(s) ==
  IF s # <<>> /\ Head(s) \in Digits THEN <<Head(s)>> \o DigitPrefix(Tail(s)) ELSE <<>>
\* Number.parseInt(v, 10): leading blanks, an optional sign, then digits; whatever
\* follows the digits is ignored, and a text with no digits there is NaN
ParseInt(v) ==
  LET t      == TrimLeft(v)
      signed == t # <<>> /\ Head(t) \in {"-", "+"}
      ds     == DigitPrefix(IF signed THEN Tail(t) ELSE t)
  IN  IF ds = <<>> THEN [nan |-> TRUE, val |-> 0]
      ELSE [nan |-> FALSE,
            val |-> IF signed /\ Head(t) = "-" THEN 0 - DecimalValue(ds)
                    ELSE DecimalValue(ds)]
MinOf(a, b) == IF a < b THEN a ELSE b
MaxOf(a, b) == IF a > b THEN a ELSE b
\* (variant: no upper bound is applied)
ClampIntNoMax(v, min, max, dflt) ==
  LET n == ParseInt(v) IN IF n.nan THEN dflt ELSE MaxOf(n.val, min)
\* clampInt(v, min, max, dflt)
ClampInt(v, min, max, dflt) ==
  LET n == ParseInt(v) IN IF n.nan THEN dflt ELSE MinOf(MaxOf(n.val, min), max)
\* getCards: lim and off
CardsLimit(limit)   == ClampInt(limit, 1, 200, 100)
CardsOffset(offset) == ClampInt(offset, 0, 10000, 0)
\* getCards: qs.toString()
CardsQuery(arcana, limit, offset) ==
  (IF HasParam(arcana) THEN "arcana=" \o arcana \o "&" ELSE "")
    \o "limit=" \o ToString(CardsLimit(limit))
    \o "&offset=" \o ToString(CardsOffset(offset))
\* getCards: `tarot:cards:${qs.toString()}`
CardsKey(arcana, limit, offset) == "tarot:cards:" \o CardsQuery(arcana, limit, offset)
CardsKeys == {CardsKey(q.arcana, q.limit, q.offset) : q \in CardsParams}

TarotKeys     == {"tarot:daily:today", "tarot:daily:seed=s1", "tarot:card:1"} \cup CardsKeys
\* what becomes of a request to the Tarot upstream: an answer, or a transport failure
NetworkFailure == Resp(0, "none")
TarotResponses == {Resp(200, "jsonA"), Resp(200, "jsonB"), Resp(405, "text"),
                   Resp(503, "jsonError")} \cup {NetworkFailure}

DAY_TTL   == 4                             \* 24 * 60 * 60 * 1000
CARDS_TTL == 1                             \* 6 * 60 * 60 * 1000

\* history: a value stored under a key, and when
NoStored == [val |-> "none", at |-> -1, by |-> NoRaw]
IdleTarot == [pc |-> "idle", fn |-> "none", key |-> "none",
              question |-> FALSE, id |-> NoId, hit |-> FALSE, n |-> 0, reqs |-> 0,
              reads |-> 0, writes |-> 0, log |-> <<>>, errs |-> <<>>, got |-> NetworkFailure,
              raw |-> NoRaw, lim |-> 0, off |-> 0, query |-> "", result |-> NoResult]

\* getCardOfDay: `tarot:daily:${qs.toString() || "today"}`
DailyKey(seed, date) ==
  IF HasParam(seed) /\ HasParam(date) THEN "tarot:daily:seed=s1&date=d1"
  ELSE IF HasParam(seed) THEN "tarot:daily:seed=s1"
  ELSE IF HasParam(date) THEN "tarot:daily:date=d1"
  ELSE "tarot:daily:today"

\* Number.isInteger(n)
IsInteger(x) == ~x.nan /\ x.tenths % 10 = 0
\* getCardById: the ids that are refused
InvalidId(ver, x) ==
  IF ver = "wrap"
  THEN ~IsInteger(x) \/ x.tenths <= 0
  ELSE x.nan \/ ~IsInteger(x) \/ x.tenths < 0
InvalidIdError ==
  [kind |-> "err", status |-> 400, msg |-> <<"Invalid id", 0>>, data |-> "none"]
\* getCardById: `tarot:card:${n}`
CardKey(x) == IF x.tenths = 10 THEN "tarot:card:1" ELSE "tarot:card:0"

\* (variant: every service function goes through cacheWrap)
CachedAll(ver, fn) == ver = "wrap"
\* which service functions go through cacheWrap
Cached(ver, fn) == ver = "wrap" /\ fn \in {"daily", "card", "cards"}
\* the ttl each service function hands to cacheWrap
TtlOf(fn) == IF fn = "cards" THEN CARDS_TTL ELSE DAY_TTL

\* drawYesNo: whether a failed GET is followed by a POST of "{}"
FallsBack(ver, c, e) ==
  ver = "plain" /\ c.fn = "yesno" /\ c.log = <<"GET">> /\ e.status = 405

\* the jsonFetch client of each version of the service
ClientOf(ver) == IF ver = "wrap" THEN "tarot" ELSE "tarotRace"

\* jsonFetch is called: the first attempt's request is sent
Fetching(c, method) ==
  [c EXCEPT !.pc = "wait", !.n = 1, !.reqs = @ + 1, !.log = Append(@, method)]

\* the service function is called: through cacheWrap, or straight to jsonFetch
Called(c, method, s, t) ==
  IF Cached(tver, c.fn)
  THEN LET v == CacheGetVal(s, c.key, t) IN
       IF WrapHit(v)
       THEN [c EXCEPT !.pc = "done", !.reads = 1, !.hit = TRUE,
                      !.result = Success(Resp(200, v))]
       ELSE Fetching([c EXCEPT !.reads = 1], method)
  ELSE Fetching(c, method)

\* the call is over
Ended(c) == [c EXCEPT !.pc = "done"]

TarotStart(p, c, method) ==
  /\ tver \in TarotVersions
  /\ tarot[p].pc = "idle"
  /\ tstarted < MaxTarotCalls
  /\ tstarted' = tstarted + 1
  /\ LET d == Called(c, method, store, now) IN
     IF d.pc = "done"
     THEN tarot' = tarot /\ tret' = Ended(d)
     ELSE tarot' = [tarot EXCEPT ![p] = d] /\ tret' = tret
  /\ store' = IF Cached(tver, c.fn) THEN CacheGetStore(store, c.key, now) ELSE store
  /\ UNCHANGED <<now, callers, fill, failed, op, config, tver, tfill, fetchVars, moonVars>>

\* getCardOfDay({ seed, date })
getCardOfDay(p, seed, date) ==
  /\ DailyKey(seed, date) \in TarotKeys
  /\ TarotStart(p, [IdleTarot EXCEPT !.fn = "daily", !.key = DailyKey(seed, date)], "GET")

\* drawYesNo(payload)
drawYesNo(p, q) ==
  /\ q \in Questions
  /\ TarotStart(p, [IdleTarot EXCEPT !.fn = "yesno", !.question = HasParam(q)],
                IF HasParam(q) THEN "POST question" ELSE "GET")

\* getCardById(id)
getCardById(p, id) ==
  IF InvalidId(tver, id)
  THEN /\ tver \in TarotVersions
       /\ tarot[p].pc = "idle"
       /\ tstarted < MaxTarotCalls
       /\ tstarted' = tstarted + 1
       /\ tret' = Ended([IdleTarot EXCEPT !.fn = "card", !.id = id,
                                          !.result = InvalidIdError])
       /\ tarot' = tarot
       /\ UNCHANGED <<cacheVars, config, tver, tfill, fetchVars, moonVars>>
  ELSE TarotStart(p, [IdleTarot EXCEPT !.fn = "card", !.id = id, !.key = CardKey(id)], "GET")

\* getCards(params), of the caching version of the service
getCards(p, params) ==
  /\ tver = "wrap"
  /\ tstarted < MaxCardsCalls
  /\ TarotStart(p, [IdleTarot EXCEPT !.fn = "cards", !.raw = params,
                       !.lim = CardsLimit(params.limit),
                       !.off = CardsOffset(params.offset),
                       !.query = CardsQuery(params.arcana, params.limit, params.offset),
                       !.key = CardsKey(params.arcana, params.limit, params.offset)],
                "GET")

\* jsonFetch returned data: cacheWrap stores it, the call returns it
TarotReturned(p, r) ==
  LET c == [tarot[p] EXCEPT !.got = r] IN
  IF Cached(tver, c.fn)
  THEN /\ store' = CacheSet(store, c.key, r.body, TtlOf(c.fn), now)
       /\ tfill' = [tfill EXCEPT ![c.key] =
                      [last |-> [val |-> r.body, at |-> now, by |-> c.raw],
                       first |-> IF CacheGetVal(store, c.key, now) = Null
                                 THEN [val |-> r.body, at |-> now, by |-> c.raw]
                                 ELSE @.first]]
       /\ tarot' = [tarot EXCEPT ![p] = IdleTarot]
       /\ tret' = Ended([c EXCEPT !.writes = @ + 1,
                 !.result = Success(Resp(r.status, WrapResult(r.body, store, c.key, now)))])
  ELSE /\ tarot' = [tarot EXCEPT ![p] = IdleTarot]
       /\ tret' = Ended([c EXCEPT !.result = Success(r)])
       /\ UNCHANGED <<store, tfill>>

\* an attempt of jsonFetch threw e: one more attempt (the 300 ms backoff is not a
\* step of its own), or jsonFetch throws e and the service falls back or fails
TarotThrown(p, r, e) ==
  LET c == [tarot[p] EXCEPT !.got = r] IN
  /\ IF Retries(ClientOf(tver), c.n, e)
     THEN tarot' = [tarot EXCEPT ![p] = [c EXCEPT !.n = 2, !.reqs = @ + 1]] /\ tret' = tret
     ELSE IF FallsBack(tver, c, e)
     THEN /\ tarot' = [tarot EXCEPT ![p] =
                         Fetching([c EXCEPT !.errs = Append(@, e.status)], "POST {}")]
          /\ tret' = tret
     ELSE /\ tarot' = [tarot EXCEPT ![p] = IdleTarot]
          /\ tret' = Ended([c EXCEPT !.errs = Append(@, e.status), !.result = e])
  /\ UNCHANGED <<store, tfill>>

\* the request in flight is answered, or fails in transport
tarotRespond(p, r) ==
  /\ tarot[p].pc = "wait"
  /\ IF r = NetworkFailure THEN TarotThrown(p, r, NetworkError(ClientOf(tver)))
     ELSE IF RespOk(r) THEN TarotReturned(p, r)
     ELSE TarotThrown(p, r, TarotHttpError(r))
  /\ UNCHANGED <<now, callers, fill, failed, op, config, tver, tstarted, fetchVars,
                 moonVars>>

\* the request in flight is not answered in time: the attempt throws the timeout error
TimedOut == Resp(0, "timeout")
tarotTimeout(p) ==
  /\ tarot[p].pc = "wait"
  /\ TarotThrown(p, TimedOut, TimeoutError(ClientOf(tver)))
  /\ UNCHANGED <<now, callers, fill, failed, op, config, tver, tstarted, fetchVars,
                 moonVars>>

\* the server imports one version of services/tarot.js
tarotLoad(ver) ==
  /\ config.up
  /\ tver = "none"
  /\ IF config.TAROT_API_BASE = ""
     THEN config' = [config EXCEPT !.up = FALSE] /\ tver' = tver
     ELSE config' = config /\ tver' = ver
  /\ UNCHANGED <<cacheVars, fetchVars, moonVars, tarot, tret, tfill, tstarted>>

\* twelve hours pass
TickHalfDay ==
  /\ now + 2 <= 2 * MaxTime
  /\ now' = now + 2
  /\ op' = Op("tick", "none", "none", NoRet, FALSE, "none")
  /\ UNCHANGED <<store, callers, fill, failed, fetchVars, moonVars, tarotVars>>

InitTarot ==
  /\ config = [Config(DeployedEnv) EXCEPT !.boots = 0]
  /\ tver = "none"
  /\ tarot = [p \in TarotProcs |-> IdleTarot]
  /\ tret = IdleTarot
  /\ tfill = [k \in TarotKeys |-> [last |-> NoStored, first |-> NoStored]]
  /\ tstarted = 0

InitCache ==
  /\ now = 0
  /\ store = [k \in Keys \cup TarotKeys |-> NoEntry]
  /\ callers = [p \in Procs |-> IdleCaller]
  /\ fill = [k \in Keys |-> NoFill]
  /\ failed = [k \in Keys |-> FALSE]
  /\ op = Op("init", "none", "none", NoRet, FALSE, "none")

vars == <<now, store, callers, fill, failed, op, calls, rows, moon, mret, started,
          config, tver, tarot, tret, tfill, tstarted>>

Init == InitCache /\ InitFetch /\ InitMoon /\ InitTarot

NextCache ==
  \/ \E p \in Procs, k \in Keys : cacheGet(p, k)
  \/ \E p \in Procs, k \in Keys, v \in Vals, ttl \in TTLs : cacheSet(p, k, v, ttl)
  \/ \E p \in Procs, k \in Keys, ttl \in TTLs : cacheWrapStart(p, k, ttl)
  \/ \E p \in Procs, v \in Vals : producerResolve(p, v)
  \/ \E p \in Procs : producerReject(p)
  \/ cacheClear
  \/ Tick

NextFetch ==
  \/ \E c \in Calls, client \in Clients : fetchStart(c, client)
  \/ \E c \in Calls, r \in Responses : fetchRespond(c, r)
  \/ \E c \in Calls : fetchNetworkError(c)
  \/ \E c \in Calls : fetchTimeout(c)
  \/ \E c \in Calls : fetchBackoffDone(c)
  \/ \E c \in Calls, i \in 1..2 : lateTimerFire(c, i)
  \/ \E c \in Calls, i \in 1..2 : lateResponse(c, i)

NextMoon ==
  \/ \E p \in MoonProcs, d \in Dates, loc \in Locations : moonStart(p, d, loc)
  \/ \E p \in MoonProcs, a \in MoonAnswers : moonFetched(p, a)
  \/ \E p \in MoonProcs : moonSelect(p)
  \/ \E p \in MoonProcs : moonUpsert(p)
  \/ Tick

\* the daily card over time
NextDaily ==
  \/ \E ver \in TarotVersions : tarotLoad(ver)
  \/ \E p \in TarotProcs, seed \in Seeds, date \in DateArgs : getCardOfDay(p, seed, date)
  \/ \E p \in TarotProcs, r \in TarotResponses : tarotRespond(p, r)
  \/ TickHalfDay

\* listings of cards, one request at a time
NextCards ==
  \/ \E ver \in TarotVersions : tarotLoad(ver)
  \/ \E p \in SingleCaller, params \in CardsParams : getCards(p, params)
  \/ \E p \in SingleCaller, r \in TarotResponses : tarotRespond(p, r)
  \/ Tick

\* draws and card lookups
NextDraw ==
  \/ \E ver \in TarotVersions : tarotLoad(ver)
  \/ \E p \in TarotProcs, q \in Questions : drawYesNo(p, q)
  \/ \E p \in TarotProcs, id \in IdArgs : getCardById(p, id)
  \/ \E p \in TarotProcs, r \in TarotResponses : tarotRespond(p, r)

\* getMoonFor at one place and date, against an upstream that answers with a body
ScenarioLocation == [lat |-> 436150, lon |-> -1162020, place |-> NoText, ip |-> NoText]
NextMoonBodies ==
  \/ \E p \in MoonProcs : moonStart(p, "2025-08-23", ScenarioLocation)
  \/ \E p \in MoonProcs, b \in WireBodies : moonFetched(p, Parsed(b))
  \/ \E p \in MoonProcs : moonSelect(p)
  \/ \E p \in MoonProcs : moonUpsert(p)
  \/ Tick

\* getMoonFor at latitudes a few thousandths of a degree apart
NearLats == {436119, 436123, 436140, 436149, 436150, 436160}
NearLocations == {[ScenarioLocation EXCEPT !.lat = la] : la \in NearLats}
NextMoonNear ==
  \/ \E p \in MoonProcs, loc \in NearLocations : moonStart(p, "2025-08-23", loc)
  \/ \E p \in MoonProcs, b \in WireBodies : moonFetched(p, Parsed(b))
  \/ \E p \in MoonProcs : moonSelect(p)
  \/ \E p \in MoonProcs : moonUpsert(p)

\* the process is started in some environment, then serves moon requests and loads
\* the tarot service
NextBoot ==
  \/ \E env \in Envs : serverStart(env)
  \/ \E p \in MoonProcs : moonStart(p, "2025-08-23", ScenarioLocation)
  \/ \E p \in MoonProcs, b \in WireBodies : moonFetched(p, Parsed(b))
  \/ \E p \in MoonProcs : moonSelect(p)
  \/ \E p \in MoonProcs : moonUpsert(p)
  \/ \E ver \in TarotVersions : tarotLoad(ver)

\* getMoonFor against an upstream whose moonrise and moonset take many shapes
TimeTexts == {<<"1", "7", ":", "2", "3">>, <<" ", "5", ":", "1", "0">>, <<"-", ":", "-">>,
              NoText, <<"7", ":", "5">>, <<"2", "5", ":", "6", "1">>}
TimeBodies ==
  {[ProviderBody EXCEPT !.moonrise = t, !.moonset = <<"0", "2", ":", "4", "1">>] :
     t \in TimeTexts}
NextMoonTimes ==
  \/ \E p \in MoonProcs : moonStart(p, "2025-08-23", ScenarioLocation)
  \/ \E p \in MoonProcs, b \in TimeBodies : moonFetched(p, Parsed(b))
  \/ \E p \in MoonProcs : moonSelect(p)
  \/ \E p \in MoonProcs : moonUpsert(p)

\* every service function, one call at a time, each attempt answered or timed out
NextAttempts ==
  \/ \E ver \in TarotVersions : tarotLoad(ver)
  \/ \E p \in SingleCaller :
        tstarted < MaxAttemptCalls /\ getCardOfDay(p, Undefined, Undefined)
  \/ \E p \in SingleCaller, params \in CardsParams :
        tstarted < MaxAttemptCalls /\ getCards(p, params)
  \/ \E p \in SingleCaller, id \in IdArgs :
        tstarted < MaxAttemptCalls /\ getCardById(p, id)
  \/ \E p \in SingleCaller, q \in Questions :
        tstarted < MaxAttemptCalls /\ drawYesNo(p, q)
  \/ \E p \in SingleCaller, r \in TarotResponses : tarotRespond(p, r)
  \/ \E p \in SingleCaller : tarotTimeout(p)
\* each attempt is answered or times out
AttemptsSettle ==
  \A p \in SingleCaller :
    WF_vars((\E r \in TarotResponses : tarotRespond(p, r)) \/ tarotTimeout(p))

SpecCache == Init /\ [][NextCache]_vars
SpecMoon == Init /\ [][NextMoon]_vars
SpecFetch == Init /\ [][NextFetch]_vars
SpecDaily == Init /\ [][NextDaily]_vars
SpecDraw == Init /\ [][NextDraw]_vars
SpecCards == Init /\ [][NextCards]_vars
SpecMoonBodies == Init /\ [][NextMoonBodies]_vars
SpecMoonNear == Init /\ [][NextMoonNear]_vars
SpecBoot == Init /\ [][NextBoot]_vars
SpecMoonTimes == Init /\ [][NextMoonTimes]_vars
SpecAttempts == Init /\ [][NextAttempts]_vars /\ AttemptsSettle

\* ------------------------------------------------------- TTL cache claims
IsRead == op.name \in {"get", "hit", "miss"}
IsWrap == op.name \in {"hit", "miss"}
Filled(k) == fill[k] # NoFill

\* C2 as stated: the TTL window is counted from the cacheWrap call that filled the
\* entry: a cacheWrap within ttlMs of the start of that call does not invoke the
\* producer, and a cacheWrap later than that invokes it again.
C2_WindowFromCall ==
  (IsWrap /\ Filled(op.key) /\ fill[op.key].val # Null)
    => ((op.name = "hit") <=> (now <= fill[op.key].startUntil))

\* C2 amended: the TTL window is counted from the instant the producer's non-null
\* result was stored: a cacheWrap at most ttlMs after that instant returns the stored
\* value without invoking the producer, and any later cacheWrap (or one on a key
\* that holds nothing, or null) invokes the producer, once.
C2_WindowFromStore ==
  IsWrap =>
    LET f == fill[op.key]
        live == Filled(op.key) /\ f.val # Null /\ now <= f.until
    IN /\ (op.name = "hit") <=> live
       /\ op.name = "hit" => (op.ret = Ok(f.val) /\ callers[op.p].pc = "idle")
       /\ op.name = "miss" => callers[op.p].pc = "pending"

\* a cacheWrap after the window of a stored non-null value has elapsed invoked the producer again
C2_Witness ==
  /\ op.name = "miss"
  /\ Filled(op.key) /\ fill[op.key].val # Null /\ now > fill[op.key].until
  /\ fill[op.key].startUntil < fill[op.key].until

\* C3 as stated: a read of an entry whose expiry instant is <= now (the instant
\* now = expiresAt included) is a miss and deletes the entry.
C3_AbsentFromExpiry ==
  (op.name = "get" /\ Filled(op.key) /\ fill[op.key].until <= now)
    => (op.ret = Ok(Null) /\ store[op.key] = NoEntry)

\* C3 amended: cacheGet treats an entry as absent (returns a miss and deletes it)
\* exactly when its expiry instant is < now; at the instant now = expiresAt the entry
\* is still served and kept.
C3_AbsentAfterExpiry ==
  (op.name = "get" /\ Filled(op.key)) =>
    IF fill[op.key].until < now
    THEN op.ret = Ok(Null) /\ store[op.key] = NoEntry
    ELSE op.ret = Ok(fill[op.key].val) /\ store[op.key] # NoEntry
                                      /\ store[op.key].val = fill[op.key].val

\* cacheGet has read an entry after its expiry instant
C3_Witness ==
  /\ op.name = "get" /\ Filled(op.key)
  /\ fill[op.key].until < now /\ fill[op.key].val # Null
  /\ op.ret = Ok(Null)

\* C4: racing cacheWrap callers of one key each get their own producer's result,
\* and each resolution leaves the key holding one well-formed entry with the resolving
\* caller's value, so once all have completed the key holds the result of one of them.
C4_RaceKeepsCacheSound ==
  /\ \A k \in Keys : store[k] = NoEntry
                     \/ (store[k].val \in Vals /\ store[k].exp \in 1..(MaxTime + MaxTtl))
  /\ op.name = "resolve" =>
       /\ op.ret = Ok(op.prod)
       /\ store[op.key] # NoEntry /\ store[op.key].val = op.prod
       /\ callers[op.p].pc = "idle"

\* two callers missed the same key concurrently, both producers ran, and the last has resolved
C4_Witness ==
  /\ op.name = "resolve" /\ op.raced /\ op.prod # Null
  /\ \A q \in Procs : Idle(q)
  /\ store[op.key].val = op.prod

\* C5: a failing producer makes cacheWrap fail with the error and leaves the store as
\* it was, so that (no other call having stored the key meanwhile) the next cacheWrap
\* on the key invokes the producer again.
C5_FailureNotCached ==
  [][/\ op'.name = "reject" => (store' = store /\ op'.ret = Err)
     /\ (op'.name \in {"hit", "miss"} /\ failed[op'.key]) => op'.name = "miss"]_vars

\* after a failed producer, the next cacheWrap on the key invoked the producer again
C5_Witness == op.name = "miss" /\ failed[op.key] /\ store[op.key] = NoEntry

\* ------------------------------------------------ upstream client claims
IsTarot(c) == calls[c].client \in {"tarot", "tarotRace"}
Over(c) == calls[c].pc = "done"
Outcome(c, i) == calls[c].hist[i]
Attempts(c) == Len(calls[c].req)         \* requests sent so far
TimedOutLast(c) == Len(calls[c].hist) >= 1 /\ Last(calls[c].hist).kind = "timeout"

\* C6: a Tarot jsonFetch call makes at most two network attempts; a first attempt
\* answered 429, 502, 503 or 504 is followed by exactly one more attempt, whose
\* outcome (success on 2xx, failure otherwise) is the call's outcome.
C6_OneRetryOnTransient ==
  \A c \in Calls : IsTarot(c) =>
    LET cl == calls[c]
        h == cl.hist
    IN /\ Attempts(c) <= 2 /\ Len(h) <= Attempts(c)
       /\ (Len(h) >= 1 /\ h[1].kind = "resp" /\ h[1].status \in {429, 502, 503, 504}) =>
            /\ cl.pc \in {"backoff", "fetch", "done"}
            /\ Over(c) =>
                 /\ Attempts(c) = 2 /\ Len(h) = 2
                 /\ (h[2].kind = "resp" /\ h[2].status \in 200..299) => cl.result.kind = "ok"
                 /\ (h[2].kind = "resp" /\ h[2].status \notin 200..299) =>
                      (cl.result.kind = "err" /\ cl.result.status = h[2].status)
                 /\ h[2].kind # "resp" => cl.result.kind = "err"

\* a Tarot call answered 503 and then 200 has succeeded after two attempts
C6_Witness ==
  \E c \in Calls :
    /\ IsTarot(c) /\ Over(c) /\ Attempts(c) = 2 /\ Len(calls[c].hist) = 2
    /\ Outcome(c, 1).kind = "resp" /\ Outcome(c, 1).status = 503
    /\ Outcome(c, 2).kind = "resp" /\ Outcome(c, 2).status = 200
    /\ calls[c].result.kind = "ok"

\* C7: a non-2xx answer whose status is not 429/502/503/504 makes the Tarot jsonFetch
\* fail after exactly one attempt with an error carrying the upstream's status and
\* body; GET /tarot/cards/:id answers 404 for an upstream 404.
C7_OtherStatusFailsAtOnce ==
  \A c \in Calls :
    (IsTarot(c) /\ Len(calls[c].hist) >= 1 /\ Outcome(c, 1).kind = "resp"
       /\ Outcome(c, 1).status \notin (200..299) \cup {429, 502, 503, 504}) =>
      /\ Over(c) /\ Attempts(c) = 1 /\ Len(calls[c].hist) = 1
      /\ calls[c].result.kind = "err"
      /\ calls[c].result.status = Outcome(c, 1).status
      /\ calls[c].result.data = Outcome(c, 1).body
      /\ Outcome(c, 1).status = 404 => calls[c].http = 404

\* an upstream 404 has been surfaced as 404 after one attempt
C7_Witness ==
  \E c \in Calls :
    /\ IsTarot(c) /\ Over(c) /\ Attempts(c) = 1
    /\ Outcome(c, 1) = [kind |-> "resp", status |-> 404, body |-> "jsonError"]
    /\ calls[c].http = 404

\* C8 as stated: a transport-level failure is retried exactly once and only then
\* surfaced, as a 502-equivalent error.
C8_TransportFailureRetried ==
  \A c \in Calls :
    (Over(c) /\ Outcome(c, 1).kind = "neterr") =>
      (Attempts(c) = 2 /\ (calls[c].result.kind = "err" => calls[c].result.status = 502))

\* C8 amended: a transport-level failure of an upstream call is never retried: the
\* call fails right after the attempt on which it occurs, with the 502 "Moon API
\* network error" in the Astronomy client and with the raw fetch error, which carries
\* no status (the error handler answers 500), in the Tarot client.
C8_TransportFailureSurfacedAtOnce ==
  \A c \in Calls :
    LET cl == calls[c]
        h == cl.hist
    IN /\ \A i \in 1..Len(h) : h[i].kind = "neterr" => i = Len(h)
       /\ (Len(h) >= 1 /\ Last(h).kind = "neterr") =>
            /\ Over(c) /\ Attempts(c) = Len(h) /\ cl.result.kind = "err"
            /\ cl.client = "astro" =>
                 (cl.result.status = 502 /\ cl.result.msg = <<"Moon API network error", 0>>)
            /\ IsTarot(c) => (cl.result.status = 0 /\ cl.http = 500)

\* a Tarot call has failed on a transport failure of its only attempt
C8_Witness ==
  \E c \in Calls :
    /\ IsTarot(c) /\ Over(c) /\ Attempts(c) = 1
    /\ Outcome(c, 1).kind = "neterr" /\ calls[c].result.status = 0

\* C9 as stated: in both clients a call that times out fails with a distinguished
\* Upstream Timeout error of status 504, distinguishable from Upstream Unreachable.
C9_TimeoutIs504 ==
  \A c \in Calls :
    (Over(c) /\ TimedOutLast(c)) =>
      /\ calls[c].result.status = 504
      /\ calls[c].result.msg = <<"Upstream timeout", 0>>

\* C9 amended: every attempt in flight has its timeout timer armed, so no call
\* hangs; a Tarot call that times out fails with the 504 "Upstream timeout" error,
\* while an Astronomy call that times out fails with the same 502 "Moon API network
\* error" as a transport failure.
C9_TimeoutPerClient ==
  \A c \in Calls :
    LET cl == calls[c] IN
    /\ Awaiting(c) => (Last(cl.timer) = "armed" /\ Last(cl.req) = "inflight")
    /\ (Over(c) /\ TimedOutLast(c)) =>
         /\ cl.result.kind = "err"
         /\ IsTarot(c) =>
              (cl.result.status = 504 /\ cl.result.msg = <<"Upstream timeout", 0>>)
         /\ cl.client = "astro" =>
              (cl.result.status = 502 /\ cl.result.msg = <<"Moon API network error", 0>>)

\* an Astronomy call has timed out and failed
C9_Witness ==
  \E c \in Calls :
    /\ calls[c].client = "astro" /\ Over(c) /\ TimedOutLast(c)
    /\ calls[c].result.status = 502

\* C10: once a call that timed out has failed, none of its requests is in flight and
\* none of its timers is armed, other calls' requests are untouched, and it made at
\* most two attempts.
C10_NothingLeftInFlight ==
  \A c \in Calls :
    (Over(c) /\ TimedOutLast(c)) =>
      /\ Attempts(c) <= 2
      /\ \A i \in 1..Attempts(c) : calls[c].req[i] # "inflight" /\ calls[c].timer[i] # "armed"
      /\ \A d \in Calls \ {c} : Awaiting(d) => Last(calls[d].req) = "inflight"

\* ------------------------------------------------------ moon data claims
\* C1: whatever the interleaving of getMoonFor calls, moon_data holds at most one
\* row per (for_date, rounded lat, rounded lon).
C1_OneRowPerKey ==
  \A r1 \in rows, r2 \in rows :
    (r1.date = r2.date /\ r1.lat = r2.lat /\ r1.lon = r2.lon) => r1 = r2

\* a getMoonFor call whose SELECT saw no row, or a stale row since rewritten, has
\* upserted onto the row a concurrent call wrote meanwhile
C1_Witness ==
  /\ mret.from = "upsert" /\ mret.raced
  /\ Cardinality(Matching(rows, mret.date, mret.lat, mret.lon)) = 1
  /\ \A p \in MoonProcs : moon[p].pc = "idle"

\* the getMoonFor call of p, and the key its queries use
MoonKeyRows(rs, p) == Matching(rs, moon[p].date, moon[p].lat, moon[p].lon)
Selected(p) == moon[p].pc = "select" /\ moon'[p].pc # "select"
Upserted(p) == moon[p].pc = "upsert" /\ moon'[p].pc = "idle"

\* C11: getMoonFor treats the row its SELECT finds as fresh exactly when
\* now - created_at <= 24h: a fresh row (one aged exactly 24h included) is returned
\* and the table is left as it was; with a stale row, or none, the call goes on to the
\* upsert, which overwrites the row with the newly fetched data and stamps it now.
C11_FreshWithin24h ==
  [][\A p \in MoonProcs :
       /\ Selected(p) =>
            LET found == MoonKeyRows(rows, p) IN
            /\ (found # {} /\ \A r \in found : now - r.created <= FRESH_WINDOW) =>
                 (moon'[p].pc = "idle" /\ rows' = rows /\ mret'.from = "row"
                    /\ mret'.age \in 0..FRESH_WINDOW)
            /\ (found = {} \/ \E r \in found : now - r.created > FRESH_WINDOW) =>
                 (moon'[p].pc = "upsert" /\ rows' = rows)
       /\ Upserted(p) =>
            /\ mret'.from = "upsert" /\ (mret'.age = -1 \/ mret'.age > FRESH_WINDOW)
            /\ \A r \in MoonKeyRows(rows', p) :
                 r.phase = moon[p].first.phase /\ r.created = now]_vars

\* a row aged exactly 24 hours has been served as fresh
C11_Witness == mret.from = "row" /\ mret.age = FRESH_WINDOW

\* C12: a getMoonFor call given a usable location makes exactly one upstream request,
\* and makes it before its first query: while the request is out no query has been
\* made, and a call that returned (from the row or from the upsert) or failed on the
\* upstream made one request.
C12_OneUpstreamRequestFirst ==
  /\ \A p \in MoonProcs :
       LET c == moon[p] IN
       /\ c.pc = "fetching" => (c.reqs = 1 /\ c.dbops = 0)
       /\ c.pc = "select" => (c.reqs = 1 /\ c.dbops = 0)
       /\ c.pc = "upsert" => (c.reqs = 1 /\ c.dbops = 1)
  /\ mret.from = "row" => (mret.reqs = 1 /\ mret.dbops = 1)
  /\ mret.from = "upsert" => (mret.reqs = 1 /\ mret.dbops = 2)
  /\ (mret.kind = "err" /\ mret.usable) => mret.reqs = 1

\* a call served from a fresh row has made its one upstream request
C12_Witness == mret.from = "row" /\ mret.reqs = 1 /\ mret.dbops = 1 /\ mret.usable

\* C13: on a fresh hit getMoonFor returns the row's phase, moonrise and moonset (and
\* key), whatever the upstream just answered, with the zodiac sign and the location
\* labels of the upstream's answer.
C13_HitReturnsRowFields ==
  [][\A p \in MoonProcs :
       (moon[p].pc = "select" /\ moon'[p].pc = "idle") =>
         \E r \in MoonKeyRows(rows, p) :
           /\ mret'.kind = "ok" /\ mret'.from = "row"
           /\ mret'.phase = r.phase /\ mret'.moonrise = r.moonrise
           /\ mret'.moonset = r.moonset
           /\ mret'.date = r.date /\ mret'.lat = r.lat /\ mret'.lon = r.lon
           /\ mret'.zodiac = moon[p].first.zodiac /\ mret'.city = moon[p].first.city]_vars

\* a hit has returned the row's "New Moon" with the sign and city of an upstream
\* answer that said "Full Moon"
C13_Witness ==
  /\ mret.from = "row" /\ mret.phase = "New Moon"
  /\ mret.zodiac = "Leo" /\ mret.city = "Boise"

\* C14: the upsert leaves exactly one row for its (date, lat, lon), holding the phase,
\* moonrise and moonset of this call and stamped with the time of this write, also
\* when a row with another phase was there; the other rows are untouched.
C14_UpsertKeepsLatest ==
  [][\A p \in MoonProcs :
       Upserted(p) =>
         LET c == moon[p] IN
         /\ Cardinality(MoonKeyRows(rows', p)) = 1
         /\ \A r \in MoonKeyRows(rows', p) :
              /\ r.phase = c.first.phase
              /\ r.moonrise = CombineDateTime(c.date, c.first.moonrise)
              /\ r.moonset = CombineDateTime(c.date, c.first.moonset)
              /\ r.created = now
              /\ mret'.phase = r.phase /\ mret'.moonrise = r.moonrise
         /\ rows' \ MoonKeyRows(rows', p) = rows \ MoonKeyRows(rows, p)]_vars

\* an upsert has replaced a row of another phase, written by another upsert of this run
C14_Witness ==
  /\ mret.from = "upsert" /\ mret.replaced \notin {"none", mret.phase}
  /\ mret.raced
  /\ \E r \in Matching(rows, mret.date, mret.lat, mret.lon) :
       r.phase = mret.phase /\ r.created = now

\* C15: when the upstream request fails (transport failure, timeout or non-2xx
\* answer) getMoonFor fails with a status-502 error that names the upstream's status
\* and carries its body, having made no query: the table is as it was.
C15_UpstreamFailureIs502 ==
  [][\A p \in MoonProcs :
       (moon[p].pc = "fetching" /\ moon'[p].pc = "idle") =>
         /\ rows' = rows
         /\ mret'.kind = "err" /\ mret'.err.status = 502 /\ mret'.dbops = 0
         /\ mret'.up.kind = "http" =>
              /\ mret'.err.msg = <<"Moon API error", mret'.up.resp.status>>
              /\ mret'.err.data = mret'.up.resp.body
         /\ mret'.up.kind \in {"neterr", "timeout"} =>
              mret'.err.msg = <<"Moon API network error", 0>>]_vars

\* a call whose upstream answered 503 has failed with 502
C15_Witness ==
  /\ mret.kind = "err" /\ mret.up.kind = "http" /\ mret.up.resp.status = 503
  /\ mret.err.status = 502 /\ mret.dbops = 0

\* C16: a getMoonFor call given no usable location (no numeric lat/lon pair, no
\* non-blank place, no non-blank IP) fails with the 400 "No location provided" error
\* having made no upstream request and no query; only calls given a usable location
\* get any further.
C16_NoLocationIs400 ==
  /\ \A p \in MoonProcs : moon[p].pc # "idle" => moon[p].usable
  /\ mret.kind = "ok" => mret.usable
  /\ (mret.kind = "err" /\ ~mret.usable) =>
       (mret.err = NoLocationError /\ mret.reqs = 0 /\ mret.dbops = 0)
  /\ (mret.kind = "err" /\ mret.err.status = 400) => ~mret.usable

\* a call given only a blank place name has failed with 400
C16_Witness == mret.kind = "err" /\ mret.err.status = 400 /\ ~mret.usable /\ mret.reqs = 0

\* ------------------------------------------------- tarot service claims
\* a service call has just been made: it was served from the cache, or caller
\* Starter sent its first request
TarotCalled == tstarted' # tstarted
ServedFromCache == tarot' = tarot
Starter == CHOOSE p \in TarotProcs : tarot'[p] # tarot[p]
CalledKey == IF ServedFromCache THEN tret'.key ELSE tarot'[Starter].key
InWindow(f) == f # NoStored /\ now <= f.at + DAY_TTL
ServedCard(f) ==
  /\ ServedFromCache /\ tret'.fn = "daily" /\ tret'.hit
  /\ tret'.result.kind = "ok" /\ tret'.result.data = f.val
  /\ tret'.reqs = 0

\* C17 as stated: within 24h of a fill of a key (the first store since the key last
\* held nothing live), every getCardOfDay call on that key returns the card of that
\* fill without contacting the upstream.
C17_SameCardWithinWindow ==
  [][(TarotCalled /\ tver = "wrap" /\ InWindow(tfill[CalledKey].first))
       => ServedCard(tfill[CalledKey].first)]_vars

\* C17 amended: within 24h of the last store under a key, every getCardOfDay call on
\* that key returns, without contacting the upstream, the card stored last (the
\* fill's card unless a call that was already in flight has stored its own answer
\* since); a call made later than that, or on a key never stored, goes to the upstream.
C17_LatestCardWithinWindow ==
  [][(TarotCalled /\ tver = "wrap") =>
       IF InWindow(tfill[CalledKey].last)
       THEN ServedCard(tfill[CalledKey].last) /\ store' = store
       ELSE ~ServedFromCache /\ tarot'[Starter].reqs = 1]_vars

\* a getCardOfDay call made a tick after the key was stored has been served the
\* stored card without an upstream request
C17_Witness ==
  /\ tver = "wrap" /\ tret.fn = "daily" /\ tret.hit /\ tret.reqs = 0
  /\ tfill[tret.key].last.val = tret.result.data
  /\ now > tfill[tret.key].last.at /\ now <= tfill[tret.key].last.at + DAY_TTL
  /\ \A p \in TarotProcs : tarot[p].pc = "idle"

\* the calls in progress and the call that ended last
TarotCallsSeen == {tarot[p] : p \in TarotProcs} \cup {tret}
AnswerOf(c) ==
  /\ RespOk(c.got) => (c.result.kind = "ok" /\ c.result.data = c.got.body)
  /\ (~RespOk(c.got) /\ c.got # NetworkFailure) =>
       (c.result.kind = "err" /\ c.result.status = c.got.status)
  /\ c.got = NetworkFailure => (c.result.kind = "err" /\ c.result.status = 0)

\* C18: drawYesNo makes no cache read and no cache write; every call, with or without
\* a question, sends a request to the upstream and ends with the outcome of the last
\* request it sent.
C18_DrawNeverCached ==
  \A c \in TarotCallsSeen :
    c.fn = "yesno" =>
      /\ c.reads = 0 /\ c.writes = 0 /\ ~c.hit
      /\ c.reqs >= 1
      /\ c.pc = "done" => AnswerOf(c)

\* with a card in the cache, one drawYesNo call has returned the upstream's answer
\* while another is at the upstream
C18_Witness ==
  /\ tret.fn = "yesno" /\ tret.result.kind = "ok" /\ tret.result.data = "jsonB"
  /\ tret.reqs = 1
  /\ \E p \in TarotProcs : tarot[p].fn = "yesno" /\ tarot[p].pc = "wait" /\ tarot[p].reqs = 1
  /\ store["tarot:card:1"] # NoEntry

PositiveInteger(x) == ~x.nan /\ x.tenths % 10 = 0 /\ x.tenths > 0

\* C19: getCardById with an id that is not a positive integer fails with the 400
\* "Invalid id" error having sent no request and made no cache read or write; only
\* positive integer ids get to the cache or the upstream.
C19_InvalidIdFailsFast ==
  \A c \in TarotCallsSeen :
    c.fn = "card" =>
      /\ c.pc = "wait" => PositiveInteger(c.id)
      /\ (c.pc = "done" /\ ~PositiveInteger(c.id)) =>
           (c.result = InvalidIdError /\ c.reqs = 0 /\ c.reads = 0 /\ c.writes = 0)

\* C20: drawYesNo with a question issues a POST of the question and nothing else;
\* without one it issues a GET and, exactly when that GET failed with status 405, one
\* POST of "{}" after it, and nothing after that.
C20_FallbackOn405 ==
  \A c \in TarotCallsSeen :
    c.fn = "yesno" =>
      /\ c.question => c.log = <<"POST question">>
      /\ ~c.question =>
           /\ c.log \in {<<"GET">>, <<"GET", "POST {}">>}
           /\ (Len(c.errs) >= 1 /\ c.errs[1] = 405) <=> (Len(c.log) = 2)
      /\ Len(c.errs) = 2 => (c.pc = "done" /\ c.result.status = c.errs[2])


\* ---------------------------------------------------------------------------
\* getCards

\* the calls of getCards that are under way or have just ended
CardsCalls == {c \in {tarot[p] : p \in TarotProcs} \cup {tret} : c.fn = "cards"}
\* the text has no integer for Number.parseInt to read
Unparsable(v) == ParseInt(v).nan
\* the query string made of an arcana, a limit and an offset
QueryOf(arcana, lim, off) ==
  (IF arcana = "major" THEN "arcana=major&" ELSE "")
    \o "limit=" \o ToString(lim) \o "&offset=" \o ToString(off)

\* C21: the limit that getCards sends upstream and puts in the cache key is an
\* integer in [1, 200], and 100 when the parameter is missing or unparsable; the
\* offset is an integer in [0, 10000], and 0 when missing or unparsable; the cache
\* key is the composed query string, so calls that clamp to the same query string
\* use one key, and the entry stored under it expires 6 hours after it was stored.
C21_ClampedQueryOneEntry ==
  /\ \A c \in CardsCalls :
        /\ c.lim \in 1..200 /\ c.off \in 0..10000
        /\ Unparsable(c.raw.limit) => c.lim = 100
        /\ Unparsable(c.raw.offset) => c.off = 0
        /\ (~Unparsable(c.raw.limit) /\ ParseInt(c.raw.limit).val \in 1..200)
              => c.lim = ParseInt(c.raw.limit).val
        /\ c.query = QueryOf(c.raw.arcana, c.lim, c.off)
        /\ c.key = "tarot:cards:" \o c.query
        /\ c.hit => /\ c.reqs = 0
                    /\ c.result.data = tfill[c.key].last.val
  /\ \A c, d \in CardsCalls :
        (c.raw.arcana = d.raw.arcana /\ c.lim = d.lim /\ c.off = d.off) => c.key = d.key
  /\ \A k \in CardsKeys :
        store[k] # NoEntry =>
          /\ store[k].val = tfill[k].last.val
          /\ store[k].exp = tfill[k].last.at + CARDS_TTL

\* a call with an unparsable limit and an offset below the range is served the
\* entry that a call without parameters stored
C21_Witness ==
  /\ tret.fn = "cards" /\ tret.hit
  /\ tret.raw.limit = <<"a", "b", "c">> /\ tret.raw.offset = <<"-", "1">>
  /\ tfill[tret.key].last.by.limit = UndefinedText
  /\ tfill[tret.key].last.by.offset = UndefinedText
  /\ tret.key = "tarot:cards:limit=100&offset=0"

\* ---------------------------------------------------------------------------
\* getMoonFor against the integration test's stub

\* the call of p returns a snapshot
MoonReturns(p) ==
  /\ moon[p].pc \in {"select", "upsert"} /\ moon'[p].pc = "idle"
  /\ mret'.kind = "ok"

\* C22: when the upstream answers with the stub's body {phase: "Full Moon",
\* moonrise: "17:23", moonset: "02:41", location: {lat: 43.615, lon: -116.202,
\* city: "Boise"}}, a getMoonFor("2025-08-23", 43.615, -116.202) call that finds no
\* row for its key, or the row of an earlier such call, leaves exactly one row keyed
\* (2025-08-23, 43.62, -116.2) and returns a snapshot with phase "Full Moon".
C22_StubScenarioFullMoon ==
  [][\A p \in MoonProcs :
       (/\ MoonReturns(p)
        /\ moon[p].first = Parsed(StubBody).data
        /\ \A r \in MoonKeyRows(rows, p) : r.phase = "Full Moon")
       => /\ Cardinality(Matching(rows', "2025-08-23", 436200, -1162000)) = 1
          /\ mret'.phase = "Full Moon"]_vars

\* ---------------------------------------------------------------------------
\* round2

\* the calls that have sent round2(lat), round2(lon) to the upstream
Sent(p) == moon[p].pc = "fetching" /\ moon[p].asked.lat # NoCoord
Distance(a, b) == IF a < b THEN b - a ELSE a - b
\* n lies in the hundredth-of-a-degree cell around k: k - 0.005 <= n < k + 0.005
InCell(n, k) == k % 100 = 0 /\ k - 50 <= n /\ n < k + 50
Cells == {436000, 436100, 436200, 436300}

\* C23 (as stated): latitudes within 0.005 degrees of each other are mapped by round2
\* to the same key component.
C23_Within005SameKey ==
  \A p, q \in MoonProcs :
    (Sent(p) /\ Sent(q) /\ Distance(moon[p].asked.lat, moon[q].asked.lat) <= 50)
      => moon[p].lat = moon[q].lat

\* C23 (amended): round2 maps a latitude to the hundredth of a degree whose cell
\* [k - 0.005, k + 0.005) holds it, so latitudes of one cell get the same key
\* component (43.6123 and 43.6119 both get 43.61), and latitudes within 0.005
\* degrees of each other get the same component or neighbouring ones.
C23_SameCellSameKey ==
  \A p, q \in MoonProcs :
    (Sent(p) /\ Sent(q)) =>
      /\ InCell(moon[p].asked.lat, moon[p].lat)
      /\ (\E k \in Cells : InCell(moon[p].asked.lat, k) /\ InCell(moon[q].asked.lat, k))
           => moon[p].lat = moon[q].lat
      /\ Distance(moon[p].asked.lat, moon[q].asked.lat) <= 50
           => Distance(moon[p].lat, moon[q].lat) <= 100
      /\ moon[p].asked.lat \in {436123, 436119} => moon[p].lat = 436100

\* two calls under way, for 43.6123 and 43.6119, both with 43.61
C23_Witness ==
  /\ Sent("m1") /\ Sent("m2")
  /\ moon["m1"].asked.lat = 436123 /\ moon["m2"].asked.lat = 436119
  /\ moon["m1"].lat = 436100 /\ moon["m2"].lat = 436100

\* ---------------------------------------------------------------------------
\* configuration

\* the process was started in an environment that lacks the variable
StartedWithout(name) == config.boots = 1 /\ config.env[name] = NoField

FreshHit(p) ==
  /\ Selected(p)
  /\ \E r \in MoonKeyRows(rows, p) : now - r.created <= FRESH_WINDOW

\* C25: a getMoonFor call whose SELECT finds a fresh row returns without writing:
\* the table is left as it was, so the row keeps its phase, moonrise, moonset and
\* created_at, and a hit does not extend the row's 24 hours. The table changes only
\* in the upsert of a call whose SELECT found no row or a stale one.
C25_HitLeavesStoreUnchanged ==
  [][/\ \A p \in MoonProcs :
          FreshHit(p) => /\ rows' = rows
                         /\ moon'[p].pc = "idle"
                         /\ mret'.kind = "ok" /\ mret'.dbops = 1
                         /\ \A r \in MoonKeyRows(rows, p) :
                              r \in rows' /\ mret'.age = now - r.created
     /\ rows' # rows =>
          \E p \in MoonProcs :
            /\ Upserted(p)
            /\ moon[p].age = -1 \/ moon[p].age > FRESH_WINDOW]_vars

\* a call has just been answered from a row written 24 hours ago, and the row still
\* carries that time
C25_Witness ==
  /\ mret.kind = "ok" /\ mret.from = "row" /\ mret.age = FRESH_WINDOW
  /\ \E r \in Matching(rows, mret.date, mret.lat, mret.lon) :
       r.created = now - FRESH_WINDOW /\ r.phase = mret.phase

\* ---------------------------------------------------------------------------
\* moonrise and moonset

\* a time of day written H:MM or HH:MM
TimeOfDay(t) ==
  /\ Len(t) \in {4, 5} /\ t[Len(t) - 2] = ":"
  /\ \A i \in 1..Len(t) : i # Len(t) - 2 => t[i] \in Digits
  /\ DecimalValue(SubSeq(t, 1, Len(t) - 3)) <= 23
  /\ DecimalValue(SubSeq(t, Len(t) - 1, Len(t))) <= 59
\* the timestamp of the date and a time of day, or null
StampOrNull(d, t) ==
  IF TimeOfDay(Trim(t)) THEN [date |-> d, time |-> Trim(t) \o <<":", "0", "0">>]
  ELSE NoStamp

\* C26: whatever moonrise the upstream gives, the upsert of getMoonFor succeeds and
\* the row holds the timestamp of the date and the HH:MM, or null when the moonrise
\* is missing or is not a valid H:MM / HH:MM time of day.
C26_MalformedTimeIsNull ==
  [][\A p \in MoonProcs :
       Upserted(p) =>
         /\ mret'.kind = "ok"
         /\ \E r \in MoonKeyRows(rows', p) :
              r.moonrise = StampOrNull(moon[p].date, moon[p].first.moonrise)]_vars

\* ---------------------------------------------------------------------------
\* cacheClear

\* the cacheWrap call of p, begun before the last cacheClear, is settled
SettlesAcrossClear(p) ==
  Pending(p) /\ callers[p].cleared /\ callers'[p].pc = "idle"

\* C27: a cacheWrap call whose producer was in flight when cacheClear() ran does not
\* put anything into the cache when the producer settles: the store is left as it was
\* (after a clear a key is filled only by a cacheSet, or by a cacheWrap begun after
\* the clear).
C27_ClearedWrapStoresNothing ==
  [][\A p \in Procs : SettlesAcrossClear(p) => store' = store]_vars

\* ---------------------------------------------------------------------------
\* null results

\* the store holds an entry under k that has not expired
Live(k) == store[k] # NoEntry /\ now <= store[k].exp

\* C28: cacheWrap serves the entry stored under its key exactly when the entry has
\* not expired and its value is not null: a producer's null is stored like any
\* other result, but a cacheWrap that finds it calls the producer again, while a
\* value that is not null is returned without calling the producer.
C28_NullStoredNeverServed ==
  [][/\ \A p \in Procs, k \in Keys :
          (op'.name \in {"hit", "miss"} /\ op'.p = p /\ op'.key = k /\ Idle(p)) =>
            IF Live(k) /\ store[k].val # Null
            THEN op'.name = "hit" /\ op'.ret = Ok(store[k].val) /\ callers' = callers
            ELSE op'.name = "miss" /\ callers'[p].pc = "pending"
     /\ \A p \in Procs :
          (Pending(p) /\ op'.name = "resolve" /\ op'.p = p) =>
            /\ store'[callers[p].key].val = op'.prod
            /\ store'[callers[p].key].exp = now + callers[p].ttl]_vars

\* a null is stored and has not expired, and a cacheWrap has just called its producer
C28_Witness ==
  /\ Live("k1") /\ store["k1"].val = Null
  /\ op.name = "miss" /\ op.key = "k1"
  /\ callers[op.p].pc = "pending" /\ callers[op.p].startAt = now
  /\ fill["k1"].val = Null

\* ---------------------------------------------------------------------------
\* requests without coordinates

\* the call of p has its cache key: it is about to read or to write the table
Keyed(p) == moon[p].pc \in {"select", "upsert"}

\* C29: a getMoonFor call by place name or by IP whose upstream answer carries no
\* coordinates does not read or write the row keyed (0.00, 0.00): no such call has
\* that key, and the table never holds a row under it (no caller and no upstream
\* answer here names the coordinates 0, 0).
C29_NoCoordinatesNeverKeyZero ==
  /\ \A p \in MoonProcs :
       (Keyed(p) /\ moon[p].asked.lat = NoCoord) => ~(moon[p].lat = 0 /\ moon[p].lon = 0)
  /\ \A r \in rows : ~(r.lat = 0 /\ r.lon = 0)

\* ---------------------------------------------------------------------------
\* attempts

\* the most requests one call of the service function may send
AttemptBound(c) == IF c.fn = "yesno" /\ ~c.question THEN 4 ELSE 2

\* C30: as long as each attempt is answered or times out, every Tarot service call
\* ends, having sent at most 2 requests (getCardOfDay, getCards, getCardById, and
\* drawYesNo with a question) or at most 4 (drawYesNo without a question: the GET and
\* its retry, then after a 405 the POST and its retry).
C30_EndsWithinAttempts ==
  /\ [](\A c \in {tarot[p] : p \in TarotProcs} \cup {tret} : c.reqs <= AttemptBound(c))
  /\ \A p \in SingleCaller : (tarot[p].pc = "wait") ~> (tarot[p].pc = "idle")

\* a drawYesNo without a question has ended after four requests
C30_Witness ==
  /\ tret.pc = "done" /\ tret.fn = "yesno" /\ ~tret.question
  /\ tret.reqs = 4 /\ tret.log = <<"GET", "POST {}">>

====
